---- MODULE Spec2Model ----
(***************************************************************************)
(* Model of iced_receipts: the App coordinator of src/src/main.rs (screen, *)
(* committed sales, the pending draft sale and the sale id counter) and    *)
(* the sale update logic of src/src/sale.rs (messages, instructions and    *)
(* deferred focus tasks).                                                  *)
(***************************************************************************)
EXTENDS Integers, Sequences, FiniteSets, TLC

(* ------------------------------------------------------------------ *)
(* Bounds of the model                                                   *)
(* ------------------------------------------------------------------ *)

\* A step is explored while the size of the state it leaves, the sale ids and
\* the item ids handed out plus the fields that are set, is at most the bound
\* of the specification.
MaxSize == 5
MaxSizeRows == 4
MaxSizeFields == 4
MaxSizeMessages == 4
MaxSizeGroups == 4

\* SpecFocus: while the first draft is not committed its rows are explored up
\* to MaxItemsFocus item ids and MaxFieldsFocus set fields, where a third item
\* id is needed; after the commit, up to the size MaxSizeFocus.
MaxItemsFocus == 3
MaxFieldsFocus == 3
MaxSizeFocus == 4

\* SpecTotals: the totals are computed for sales of at most this many items.
MaxItemsTotals == 2

(* ------------------------------------------------------------------ *)
(* State                                                                 *)
(* ------------------------------------------------------------------ *)

VARIABLES
    screen,        \* App.screen
    sales,         \* App.sales: committed sales by id
    pending_sale,  \* App.pending_sale: <<id, Sale>>
    next_sale_id,  \* App.next_sale_id
    NEXT_ID,       \* the static item id counter of SaleItem::default
    message,       \* the message most recently passed to App::update
    task,          \* the Task returned by that update, in chain order
    panicked,      \* TRUE once an expect("Sale should exist") has failed
    totals         \* the amounts most recently computed for a sale, if any

vars == <<screen, sales, pending_sale, next_sale_id, NEXT_ID, message, task, panicked,
          totals>>

(* ------------------------------------------------------------------ *)
(* Values                                                                *)
(* ------------------------------------------------------------------ *)

\* Option<T>
None == <<>>
Some(v) == <<v>>
IsSome(o) == Len(o) = 1
Unwrap(o) == o[1]

\* sale::Mode
View == "View"
Edit == "Edit"

\* Screen
ScreenList == [tag |-> "List"]
ScreenSale(mode, id) == [tag |-> "Sale", mode |-> mode, id |-> id]

\* tax::TaxGroup (SaleItem::default uses Food)
Food == "Food"
Standard == "Standard"
TaxGroup == {Food, Standard}

\* Mutant of SaleItemDefault: the id does not come from the counter.
SaleItemDefault_Zero(id) ==
    [id |-> 0, name |-> "", price |-> None, quantity |-> None, tax_group |-> "Food"]

\* SaleItem::default() with the id drawn from NEXT_ID
SaleItemDefault(id) ==
    [id |-> id, name |-> "", price |-> None, quantity |-> None, tax_group |-> Food]

\* Sale::default()
SaleDefault ==
    [items |-> <<>>, service_charge_percent |-> None, gratuity_amount |-> None, name |-> ""]

\* Task<Message>: a sequence of effects; Task::none() is empty, chain appends
TaskNone == <<>>
Chain(first, second) == first \o second
FocusNext == [op |-> "focus_next"]
FocusPrevious == [op |-> "focus_previous"]
\* text_input::focus(edit::form_id(field, id))
form_id(field, id) == <<field, id>>
Focus(target) == [op |-> "focus", target |-> target]

\* Action<Instruction, Message>
ActionNone == [operation |-> None, task |-> TaskNone]
ActionInstruction(i) == [operation |-> Some(i), task |-> TaskNone]
ActionTask(t) == [operation |-> None, task |-> <<t>>]
WithTask(a, t) == [a EXCEPT !.task = <<t>>]

\* sale::Instruction
Back == "Back"
Save == "Save"
StartEdit == "StartEdit"
Cancel == "Cancel"

(* ------------------------------------------------------------------ *)
(* Decimal numerals                                                      *)
(* ------------------------------------------------------------------ *)

\* Text is a sequence of one-character strings.
DigitVal(c) ==
    CASE c = "0" -> 0 [] c = "1" -> 1 [] c = "2" -> 2 [] c = "3" -> 3 [] c = "4" -> 4
      [] c = "5" -> 5 [] c = "6" -> 6 [] c = "7" -> 7 [] c = "8" -> 8 [] c = "9" -> 9

DigitChar(n) ==
    CASE n = 0 -> "0" [] n = 1 -> "1" [] n = 2 -> "2" [] n = 3 -> "3" [] n = 4 -> "4"
      [] n = 5 -> "5" [] n = 6 -> "6" [] n = 7 -> "7" [] n = 8 -> "8" [] n = 9 -> "9"

AllDigits(s) ==
    \A i \in 1..Len(s) : s[i] \in {"0", "1", "2", "3", "4", "5", "6", "7", "8", "9"}

\* The number written by at most nine digits
RECURSIVE DigitsVal(_)
DigitsVal(s) ==
    IF s = <<>> THEN 0
    ELSE DigitsVal(SubSeq(s, 1, Len(s) - 1)) * 10 + DigitVal(s[Len(s)])

\* The digits of n, as u32::to_string writes them
RECURSIVE IntDigits(_)
IntDigits(n) ==
    IF n < 10 THEN <<DigitChar(n)>>
    ELSE Append(IntDigits(n \div 10), DigitChar(n % 10))

\* s without its leading zeros, and without its trailing zeros
StripLeading(s) ==
    IF \A i \in 1..Len(s) : s[i] = "0" THEN <<>>
    ELSE SubSeq(s, CHOOSE i \in 1..Len(s) : s[i] # "0" /\ \A j \in 1..(i - 1) : s[j] = "0",
                Len(s))

StripTrailing(s) ==
    IF \A i \in 1..Len(s) : s[i] = "0" THEN <<>>
    ELSE SubSeq(s, 1,
                CHOOSE i \in 1..Len(s) : s[i] # "0" /\ \A j \in (i + 1)..Len(s) : s[j] = "0")

\* n zeros
Zeros(n) == [i \in 1..n |-> "0"]

\* a >= b for two digit strings read from the same decimal position, the
\* shorter one continued with zeros
RECURSIVE DigitsGeq(_, _)
DigitsGeq(a, b) ==
    IF a = <<>> /\ b = <<>> THEN TRUE
    ELSE LET x == IF a = <<>> THEN 0 ELSE DigitVal(a[1])
             y == IF b = <<>> THEN 0 ELSE DigitVal(b[1])
         IN  IF x # y THEN x > y
             ELSE DigitsGeq(IF a = <<>> THEN a ELSE Tail(a), IF b = <<>> THEN b ELSE Tail(b))

Max(a, b) == IF a >= b THEN a ELSE b

\* A long number is kept in limbs of four decimal digits, the least limb
\* first and the greatest not zero.
LimbDigits == 4
Limb == 10^LimbDigits

\* The limbs of the number written by the digits t
Limbs(t) ==
    [i \in 1..((Len(t) + LimbDigits - 1) \div LimbDigits) |->
        DigitsVal(SubSeq(t, Max(1, Len(t) - LimbDigits * i + 1),
                         Len(t) - LimbDigits * (i - 1)))]

\* The limbs of ls * c + carry, for c and carry below 10^4
RECURSIVE MulSmall(_, _, _)
MulSmall(ls, c, carry) ==
    IF ls = <<>> THEN (IF carry = 0 THEN <<>> ELSE <<carry>>)
    ELSE <<(ls[1] * c + carry) % Limb>>
         \o MulSmall(Tail(ls), c, (ls[1] * c + carry) \div Limb)

\* The limbs of ls * 2^s
RECURSIVE MulPow2(_, _)
MulPow2(ls, s) ==
    IF s = 0 THEN ls
    ELSE IF s > 13 THEN MulPow2(MulSmall(ls, 2^13, 0), s - 13)
    ELSE MulSmall(ls, 2^s, 0)

\* hi are the quotient and the remainder of the limbs above the limb low
DivStep(hi, low, c) ==
    <<<<(hi[2] * Limb + low) \div c>> \o hi[1], (hi[2] * Limb + low) % c>>

\* The quotient and the remainder of ls by c, for c up to 2^17
RECURSIVE DivSmall(_, _)
DivSmall(ls, c) ==
    IF ls = <<>> THEN <<<<>>, 0>> ELSE DivStep(DivSmall(Tail(ls), c), ls[1], c)

\* The number of at most three limbs ls, which is less than 2^31
LimbsVal(ls) ==
    (IF Len(ls) >= 1 THEN ls[1] ELSE 0)
    + (IF Len(ls) >= 2 THEN ls[2] * Limb ELSE 0)
    + (IF Len(ls) >= 3 THEN ls[3] * Limb * Limb ELSE 0)

(* ------------------------------------------------------------------ *)
(* f32 values                                                            *)
(* ------------------------------------------------------------------ *)

\* An f32 is kept by its fields.  A finite number has the sign neg, the
\* significand m < 2^24 and the exponent x of the last bit of m: its value
\* is m * 2^x, with m >= 2^23 and x <= 104 for a normal number, x = -149 for
\* a subnormal one, and m = 0, x = 0 for a zero, which has a sign.  An
\* infinity has a sign.  NaN is one value: its sign and payload are not
\* kept.
SignificandBits == 24
ExponentMin == 0 - 149
ExponentMax == 104

F32Num(neg, m, x) == [k |-> "num", neg |-> neg, m |-> m, x |-> x]
SignedZero(neg) == F32Num(neg, 0, 0)
Infinity(neg) == [k |-> "inf", neg |-> neg, m |-> 0, x |-> 0]

Zero == SignedZero(FALSE)
NegZero == SignedZero(TRUE)
NaN == [k |-> "nan", neg |-> FALSE, m |-> 0, x |-> 0]

\* The number of bits of n
RECURSIVE BitLen(_)
BitLen(n) == IF n = 0 THEN 0 ELSE 1 + BitLen(n \div 2)

\* The finite number m * 2^x already in the form above, or the infinity it
\* overflows to
Finite(neg, m, x) ==
    IF m = 0 THEN SignedZero(neg)
    ELSE IF x > ExponentMax THEN Infinity(neg)
    ELSE F32Num(neg, m, x)

\* A significand that was rounded up to 2^24 becomes 2^23 one exponent higher
Rounded(neg, m, x) ==
    IF m = 2^SignificandBits THEN Finite(neg, 2^(SignificandBits - 1), x + 1)
    ELSE Finite(neg, m, x)

\* The last r >= 1 bits of n are dropped, to nearest and ties to even; sticky
\* says that the number is above n by less than one unit of n
Drop(neg, n, r, x, sticky) ==
    IF r >= 31
    THEN (IF r = 31 /\ (n > 2^30 \/ (n = 2^30 /\ sticky))
          THEN Finite(neg, 1, x) ELSE SignedZero(neg))
    ELSE LET q == n \div 2^r
             rem == n % 2^r
             half == 2^(r - 1)
         IN  IF rem > half \/ (rem = half /\ (sticky \/ q % 2 = 1))
             THEN Rounded(neg, q + 1, x)
             ELSE Rounded(neg, q, x)

Shift(neg, n, e, sticky, r) ==
    IF r <= 0 THEN Finite(neg, n * 2^(0 - r), e + r)
    ELSE Drop(neg, n, r, e + r, sticky)

\* The f32 nearest to n * 2^e, ties to even, for n < 2^31; with sticky it is
\* the f32 nearest to a number above n * 2^e by less than 2^e, and n has 25
\* bits or more
Nearest(neg, n, e, sticky) ==
    IF n = 0 THEN SignedZero(neg)
    ELSE Shift(neg, n, e, sticky, Max(BitLen(n) - SignificandBits, ExponentMin - e))

\* The significand and the exponent of a finite number other than zero, the
\* significand with 24 bits
RECURSIVE Normal(_, _)
Normal(m, x) == IF m >= 2^(SignificandBits - 1) THEN <<m, x>> ELSE Normal(2 * m, x - 1)

\* The 48 bits of a product hi * 2^24 + mid * 2^12 + lo are cut to 30 bits
MulSum(neg, hi, mid, low, e) ==
    Nearest(neg, (hi + mid \div 2^12 + low \div 2^24) * 2^6 + (low % 2^24) \div 2^18,
            e + 18, (low % 2^24) % 2^18 # 0)

\* The significands are multiplied in halves of 12 bits
MulParts(neg, a1, a0, b1, b0, e) ==
    MulSum(neg, a1 * b1, a1 * b0 + a0 * b1, a0 * b0 + ((a1 * b0 + a0 * b1) % 2^12) * 2^12, e)

MulNormal(neg, a, b) ==
    MulParts(neg, a[1] \div 2^12, a[1] % 2^12, b[1] \div 2^12, b[1] % 2^12, a[2] + b[2])

\* a * b
Mul(a, b) ==
    IF a.k = "nan" \/ b.k = "nan" THEN NaN
    ELSE IF a.k = "inf" \/ b.k = "inf"
    THEN (IF (a.k = "num" /\ a.m = 0) \/ (b.k = "num" /\ b.m = 0) THEN NaN
          ELSE Infinity(a.neg # b.neg))
    ELSE IF a.m = 0 \/ b.m = 0 THEN SignedZero(a.neg # b.neg)
    ELSE MulNormal(a.neg # b.neg, Normal(a.m, a.x), Normal(b.m, b.x))

\* n without its last d bits; the last bit left is set if a bit that was
\* dropped is
Jam(n, d) ==
    IF d = 0 THEN n
    ELSE IF d >= 31 THEN 1
    ELSE n \div 2^d + (IF n % 2^d # 0 /\ (n \div 2^d) % 2 = 0 THEN 1 ELSE 0)

\* The sum of two numbers of n and of m units of 2^e
AddAligned(nneg, n, mneg, m, e) ==
    IF nneg = mneg THEN Nearest(nneg, n + m, e, FALSE)
    ELSE IF n = m THEN Zero
    ELSE IF n > m THEN Nearest(nneg, n - m, e, FALSE)
    ELSE Nearest(mneg, m - n, e, FALSE)

\* a has the greater exponent: both significands get three more bits and
\* that of b is brought to the exponent of a
AddOrdered(a, b) == AddAligned(a.neg, a.m * 8, b.neg, Jam(b.m * 8, a.x - b.x), a.x - 3)

\* a + b
Add(a, b) ==
    IF a.k = "nan" \/ b.k = "nan" THEN NaN
    ELSE IF a.k = "inf" /\ b.k = "inf" THEN (IF a.neg = b.neg THEN a ELSE NaN)
    ELSE IF a.k = "inf" THEN a
    ELSE IF b.k = "inf" THEN b
    ELSE IF a.m = 0 /\ b.m = 0 THEN SignedZero(a.neg /\ b.neg)
    ELSE IF a.m = 0 THEN b
    ELSE IF b.m = 0 THEN a
    ELSE IF a.x >= b.x THEN AddOrdered(a, b)
    ELSE AddOrdered(b, a)

\* x / 100.0, with 100 = 25 * 2^2: the significand of 24 bits times 2^8 is
\* divided by 25
Div100(d) ==
    IF d.k # "num" \/ d.m = 0 THEN d
    ELSE Nearest(d.neg,
                 (Normal(d.m, d.x)[1] \div 25) * 2^8
                 + ((Normal(d.m, d.x)[1] % 25) * 2^8) \div 25,
                 Normal(d.m, d.x)[2] - 10,
                 ((Normal(d.m, d.x)[1] % 25) * 2^8) % 25 # 0)

\* Iterator::sum over the values of a sequence, from -0.0
RECURSIVE Sum(_)
Sum(ds) == IF ds = <<>> THEN NegZero ELSE Add(Sum(SubSeq(ds, 1, Len(ds) - 1)), ds[Len(ds)])

\* The f32 nearest to q * 2^e for the limbs q, or to a number above it by
\* less than 2^e if sticky: q is halved while it is 2^31 or more, and keeps
\* 25 bits or more
RECURSIVE Binary(_, _, _, _)
RECURSIVE Halved(_, _, _, _)
Binary(neg, q, e, sticky) ==
    IF Len(q) <= 2 \/ (Len(q) = 3 /\ q[3] <= 20) THEN Nearest(neg, LimbsVal(q), e, sticky)
    ELSE IF Len(q) >= 5 THEN Halved(neg, DivSmall(q, 2^17), e + 17, sticky)
    ELSE Halved(neg, DivSmall(q, 2^5), e + 5, sticky)

Halved(neg, qr, e, sticky) ==
    Binary(neg,
           IF \A i \in 1..Len(qr[1]) : qr[1][i] = 0 THEN <<>>
           ELSE SubSeq(qr[1], 1,
                       CHOOSE i \in 1..Len(qr[1]) :
                           qr[1][i] # 0 /\ \A j \in (i + 1)..Len(qr[1]) : qr[1][j] = 0),
           e, sticky \/ qr[2] # 0)

\* n are the limbs of a number times 2^s, of which the first k are those
\* after the decimal point
Scaled(neg, n, k, s) ==
    Binary(neg, SubSeq(n, k + 1, Len(n)), 0 - s, \E i \in 1..k : n[i] # 0)

\* The decimal sig / 10^k with k > 0: zeros are written after sig until the
\* digits after the point fill whole limbs, and the number is multiplied by
\* a power of two that leaves 25 bits or more before the point
Fraction(neg, sig, k, zeros) ==
    Scaled(neg, MulPow2(Limbs(sig \o Zeros(zeros)), Max(0, 25 + 4 * k - 3 * (Len(sig) - 1))),
           (k + zeros) \div LimbDigits, Max(0, 25 + 4 * k - 3 * (Len(sig) - 1)))

\* The f32 nearest to the decimal sig * 10^p, ties to even; sig has no
\* leading and no trailing zero and its first digit has the decimal exponent
\* X.  10^39 and more is infinite and less than 10^-46 is zero.
F32Round(neg, sig, p, X) ==
    IF X > 38 THEN Infinity(neg)
    ELSE IF X < 0 - 46 THEN SignedZero(neg)
    ELSE IF p >= 0 THEN Binary(neg, Limbs(sig \o Zeros(p)), 0, FALSE)
    ELSE Fraction(neg, sig, 0 - p, (LimbDigits - ((0 - p) % LimbDigits)) % LimbDigits)

\* The f32 nearest to n / 10^e, as a literal of the source denotes it
Dec(n, e) ==
    IF n = 0 THEN Zero
    ELSE F32Round(FALSE, StripTrailing(IntDigits(n)),
                  Len(IntDigits(n)) - Len(StripTrailing(IntDigits(n))) - e,
                  Len(IntDigits(n)) - 1 - e)

(* ------------------------------------------------------------------ *)
(* Text parsing (str::parse for the quantity and price fields)           *)
(* ------------------------------------------------------------------ *)

\* A u32 is kept as its decimal numeral, without leading zeros.
\* u32::MAX, 4294967295
U32MaxDigits == <<"4", "2", "9", "4", "9", "6", "7", "2", "9", "5">>

\* The value of the digits sig, which have no leading zero
U32Of(sig) ==
    IF Len(sig) > Len(U32MaxDigits) THEN None
    ELSE IF Len(sig) = Len(U32MaxDigits) /\ ~DigitsGeq(U32MaxDigits, sig) THEN None
    ELSE IF sig = <<>> THEN Some(<<"0">>)
    ELSE Some(sig)

ParseU32Digits(body) ==
    IF body = <<>> \/ ~AllDigits(body) THEN None ELSE U32Of(StripLeading(body))

\* <u32 as FromStr>::from_str(s).ok(): an optional "+", then one or more
\* digits, no "-"; a number above u32::MAX is an error (PosOverflow).
ParseU32(s) ==
    IF s # <<>> /\ s[1] = "+" THEN ParseU32Digits(Tail(s)) ELSE ParseU32Digits(s)

\* q as f32, to nearest and ties to even
U32AsF32(q) ==
    IF q = <<"0">> THEN Zero
    ELSE F32Round(FALSE, StripTrailing(q), Len(q) - Len(StripTrailing(q)), Len(q) - 1)

\* Position of the first c in s, or Len(s) + 1
IndexOf(s, c) ==
    IF \E i \in 1..Len(s) : s[i] = c
    THEN CHOOSE i \in 1..Len(s) : s[i] = c /\ \A j \in 1..(i - 1) : s[j] # c
    ELSE Len(s) + 1

\* The letters of "infinity", "nan" and the exponent mark in lower case
LowerText(s) ==
    [i \in 1..Len(s) |->
        CASE s[i] = "A" -> "a" [] s[i] = "E" -> "e" [] s[i] = "F" -> "f"
          [] s[i] = "I" -> "i" [] s[i] = "N" -> "n" [] s[i] = "T" -> "t"
          [] s[i] = "Y" -> "y" [] OTHER -> s[i]]

\* The exponent is read digit by digit, and no further once it is 65536 or
\* more
ExponentLimit == 65536

\* ed has no leading zero: its first five digits are read, and the sixth if
\* these are less than the limit
ExpVal(ed) ==
    IF Len(ed) <= 5 \/ DigitsVal(SubSeq(ed, 1, 5)) >= ExponentLimit
    THEN DigitsVal(SubSeq(ed, 1, IF Len(ed) <= 5 THEN Len(ed) ELSE 5))
    ELSE DigitsVal(SubSeq(ed, 1, 6))

\* sig are the digits between the leading and the trailing zeros, of which
\* zeros were dropped at the end; exp is the exponent written
F32Sig(neg, sig, zeros, fracLen, exp) ==
    IF sig = <<>> THEN SignedZero(neg)
    ELSE F32Round(neg, sig, exp - fracLen + zeros, Len(sig) - 1 + exp - fracLen + zeros)

\* The value of the decimal digits * 10^(exponent - fracLen)
F32Of(neg, digits, fracLen, expNeg, expDigits) ==
    F32Sig(neg, StripTrailing(StripLeading(digits)),
           Len(StripLeading(digits)) - Len(StripTrailing(StripLeading(digits))), fracLen,
           (IF expNeg THEN 0 - 1 ELSE 1) * ExpVal(StripLeading(expDigits)))

\* The digits before and after the "." and those of the exponent: at least
\* one digit in the mantissa, and in the exponent if there is one
ParseDigits(neg, int, frac, hasExp, expNeg, expDigits) ==
    IF /\ AllDigits(int)
       /\ AllDigits(frac)
       /\ Len(int) + Len(frac) > 0
       /\ hasExp => (expDigits # <<>> /\ AllDigits(expDigits))
    THEN Some(F32Of(neg, int \o frac, Len(frac), expNeg, expDigits))
    ELSE None

\* The mantissa is split at its first ".", the exponent loses its sign
ParseParts(neg, mant, dot, hasExp, exp) ==
    ParseDigits(neg, SubSeq(mant, 1, dot - 1), SubSeq(mant, dot + 1, Len(mant)), hasExp,
                exp # <<>> /\ exp[1] = "-",
                IF exp # <<>> /\ exp[1] \in {"+", "-"} THEN Tail(exp) ELSE exp)

\* The text is split at its first "e" or "E", at position epos
ParseNumber(neg, body, epos) ==
    ParseParts(neg, SubSeq(body, 1, epos - 1), IndexOf(SubSeq(body, 1, epos - 1), "."),
               epos <= Len(body), SubSeq(body, epos + 1, Len(body)))

\* The text after the sign, as it is and in lower case
ParseUnsigned(neg, body, low) ==
    IF low \in {<<"i", "n", "f">>, <<"i", "n", "f", "i", "n", "i", "t", "y">>}
    THEN Some(Infinity(neg))
    ELSE IF low = <<"n", "a", "n">> THEN Some(NaN)
    ELSE ParseNumber(neg, body, IndexOf(low, "e"))

\* <f32 as FromStr>::from_str(s).ok(): an optional sign, then "inf",
\* "infinity" or "nan" in any case, or digits with at most one "." and at
\* least one digit, optionally followed by "e" or "E", an optional sign and
\* one or more digits.  The value is the f32 nearest to the decimal.
ParseF32(s) ==
    IF s # <<>> /\ s[1] \in {"+", "-"}
    THEN ParseUnsigned(s[1] = "-", Tail(s), LowerText(Tail(s)))
    ELSE ParseUnsigned(FALSE, s, LowerText(s))

(* ------------------------------------------------------------------ *)
(* sale.rs: the totals of a sale                                         *)
(* ------------------------------------------------------------------ *)

\* tax::TaxGroup::tax_rate.  The specification gives the rate of Standard
\* (0.08); it gives none for Food, which is taken as untaxed.
tax_rate(group) ==
    CASE group = Standard -> Dec(8, 2)
      [] group = Food -> Zero

\* SaleItem::price
price(item) == IF IsSome(item.price) THEN Unwrap(item.price) ELSE Zero

\* Mutant of quantity: an item without a quantity counts once.
quantity_One(item) ==
    IF IsSome(item.quantity) THEN U32AsF32(Unwrap(item.quantity)) ELSE Dec(1, 0)

\* SaleItem::quantity
quantity(item) == IF IsSome(item.quantity) THEN U32AsF32(Unwrap(item.quantity)) ELSE Zero

calculate_subtotal(sale) ==
    Sum([i \in 1..Len(sale.items) |-> Mul(price(sale.items[i]), quantity(sale.items[i]))])

calculate_tax(sale) ==
    Sum([i \in 1..Len(sale.items) |->
            Mul(Mul(price(sale.items[i]), quantity(sale.items[i])),
                tax_rate(sale.items[i].tax_group))])

calculate_service_charge(sale) ==
    LET subtotal == calculate_subtotal(sale)
    IN  IF IsSome(sale.service_charge_percent)
        THEN Mul(subtotal, Div100(Unwrap(sale.service_charge_percent)))
        ELSE Zero

calculate_total(sale) ==
    LET subtotal == calculate_subtotal(sale)
        tax == calculate_tax(sale)
        service_charge == calculate_service_charge(sale)
        gratuity == IF IsSome(sale.gratuity_amount)
                    THEN Unwrap(sale.gratuity_amount) ELSE Zero
    IN  Add(Add(Add(subtotal, tax), service_charge), gratuity)

(* ------------------------------------------------------------------ *)
(* sale.rs: update and handle_hotkey                                     *)
(* ------------------------------------------------------------------ *)

\* sale.items.retain(|item| item.id != id)
Retain(items, id) == SelectSeq(items, LAMBDA it : it.id # id)

\* sale.items.iter().find(|i| i.id == id): index of the first match, 0 if none
Find(items, id) ==
    IF \E i \in 1..Len(items) : items[i].id = id
    THEN CHOOSE i \in 1..Len(items) :
            items[i].id = id /\ \A j \in 1..(i - 1) : items[j].id # id
    ELSE 0

\* Mutant of UpdateField: a text that does not parse leaves the field as it was.
UpdateField_KeepOnError(item, update) ==
    CASE update.tag = "Name" -> [item EXCEPT !.name = update.val]
      [] update.tag = "Price" ->
            [item EXCEPT !.price = IF update.val = <<>> THEN None
                                   ELSE IF IsSome(ParseF32(update.val)) THEN ParseF32(update.val)
                                   ELSE @]
      [] update.tag = "Quantity" ->
            [item EXCEPT !.quantity = IF update.val = <<>> THEN None
                                      ELSE IF IsSome(ParseU32(update.val)) THEN ParseU32(update.val)
                                      ELSE @]
      [] update.tag = "TaxGroup" -> [item EXCEPT !.tax_group = update.val]

\* Mutant of UpdateField: renaming an item puts it back in the default group.
UpdateField_ResetGroup(item, update) ==
    CASE update.tag = "Name" -> [item EXCEPT !.name = update.val, !.tax_group = Food]
      [] update.tag = "Price" ->
            [item EXCEPT !.price = IF update.val = <<>> THEN None ELSE ParseF32(update.val)]
      [] update.tag = "Quantity" ->
            [item EXCEPT !.quantity = IF update.val = <<>> THEN None ELSE ParseU32(update.val)]
      [] update.tag = "TaxGroup" -> [item EXCEPT !.tax_group = update.val]

\* The match arm of edit::Message::UpdateItem on the found item
UpdateField(item, update) ==
    CASE update.tag = "Name" -> [item EXCEPT !.name = update.val]
      [] update.tag = "Price" ->
            [item EXCEPT !.price = IF update.val = <<>> THEN None ELSE ParseF32(update.val)]
      [] update.tag = "Quantity" ->
            [item EXCEPT !.quantity = IF update.val = <<>> THEN None ELSE ParseU32(update.val)]
      [] update.tag = "TaxGroup" -> [item EXCEPT !.tax_group = update.val]

\* The result of one call of sale::update: the sale as mutated through the
\* &mut reference, the returned Action and the item id counter afterwards.
Result(sale, action, next) == [sale |-> sale, action |-> action, next |-> next]

UpdateShow(sale, msg, next) ==
    CASE msg.tag = "Back" -> Result(sale, ActionInstruction(Back), next)
      [] msg.tag = "StartEdit" ->
            Result(sale, WithTask(ActionInstruction(StartEdit), FocusNext), next)

SubmitItem(sale, id, next) ==
    LET i == Find(sale.items, id)
        item == sale.items[i]
    IN  IF i = 0 THEN Result(sale, ActionNone, next)
        ELSE IF item.name = "" THEN
            Result(sale, ActionTask(Focus(form_id("name", id))), next)
        ELSE IF ~IsSome(item.quantity) THEN
            Result(sale, ActionTask(Focus(form_id("quantity", id))), next)
        ELSE IF ~IsSome(item.price) THEN
            Result(sale, ActionTask(Focus(form_id("price", id))), next)
        ELSE
            Result([sale EXCEPT !.items = Append(@, SaleItemDefault(next))],
                   ActionTask(Focus(form_id("name", id + 1))), next + 1)

\* Mutant of UpdateNameSubmit: submitting the name also asks for the save.
UpdateNameSubmit_Saves(sale, next) ==
    IF sale.items = <<>>
    THEN Result([sale EXCEPT !.items = Append(@, SaleItemDefault(next))],
                WithTask(ActionInstruction(Save), FocusNext), next + 1)
    ELSE Result(sale, WithTask(ActionInstruction(Save), FocusNext), next)

\* Mutant of UpdateNameSubmit: the item is pushed whatever the sale holds.
UpdateNameSubmit_Always(sale, next) ==
    Result([sale EXCEPT !.items = Append(@, SaleItemDefault(next))],
           ActionTask(FocusNext), next + 1)

\* The arm of edit::Message::NameSubmit
UpdateNameSubmit(sale, next) ==
    IF sale.items = <<>>
    THEN Result([sale EXCEPT !.items = Append(@, SaleItemDefault(next))],
                ActionTask(FocusNext), next + 1)
    ELSE Result(sale, ActionTask(FocusNext), next)

UpdateEdit(sale, msg, next) ==
    CASE msg.tag = "Cancel" -> Result(sale, ActionInstruction(Cancel), next)
      [] msg.tag = "Save" -> Result(sale, ActionInstruction(Save), next)
      [] msg.tag = "NameInput" -> Result([sale EXCEPT !.name = msg.name], ActionNone, next)
      [] msg.tag = "NameSubmit" -> UpdateNameSubmit(sale, next)
      [] msg.tag = "AddItem" ->
            Result([sale EXCEPT !.items = Append(@, SaleItemDefault(next))], ActionNone, next + 1)
      [] msg.tag = "RemoveItem" ->
            Result([sale EXCEPT !.items = Retain(@, msg.id)], ActionNone, next)
      [] msg.tag = "UpdateItem" ->
            LET i == Find(sale.items, msg.id)
            IN  IF i = 0 THEN Result(sale, ActionNone, next)
                ELSE Result([sale EXCEPT !.items[i] = UpdateField(@, msg.update)],
                            ActionNone, next)
      [] msg.tag = "SubmitItem" -> SubmitItem(sale, msg.id, next)
      [] msg.tag = "UpdateServiceCharge" ->
            Result([sale EXCEPT !.service_charge_percent = Some(msg.val)], ActionNone, next)
      [] msg.tag = "UpdateGratuity" ->
            Result([sale EXCEPT !.gratuity_amount = Some(msg.val)], ActionNone, next)

\* sale::update
sale_update(sale, msg, next) ==
    CASE msg.tag = "Show" -> UpdateShow(sale, msg.msg, next)
      [] msg.tag = "Edit" -> UpdateEdit(sale, msg.msg, next)

\* show::handle_hotkey and edit::handle_hotkey
show_handle_hotkey(hotkey) ==
    CASE hotkey.tag = "Escape" -> ActionInstruction(Back)
      [] hotkey.tag = "Tab" ->
            ActionTask(IF hotkey.shift THEN FocusPrevious ELSE FocusNext)

edit_handle_hotkey(hotkey) ==
    CASE hotkey.tag = "Escape" -> ActionInstruction(Cancel)
      [] hotkey.tag = "Tab" ->
            ActionTask(IF hotkey.shift THEN FocusPrevious ELSE FocusNext)

\* sale::handle_hotkey
sale_handle_hotkey(mode, hotkey) ==
    IF mode = View THEN show_handle_hotkey(hotkey) ELSE edit_handle_hotkey(hotkey)

(* ------------------------------------------------------------------ *)
(* main.rs: App                                                          *)
(* ------------------------------------------------------------------ *)

\* The fields of App as one value
App == [screen |-> screen, sales |-> sales, pending_sale |-> pending_sale,
        next_sale_id |-> next_sale_id]

\* App::new
AppNew == [screen |-> ScreenList, sales |-> <<>>, pending_sale |-> <<0, SaleDefault>>,
           next_sale_id |-> 0 + 1]

\* Mutant of Insert: the map is replaced by the one new entry.
Insert_Only(map, id, sale) == [k \in {id} |-> sale]

\* self.sales.insert(id, sale)
Insert(map, id, sale) ==
    [k \in DOMAIN map \cup {id} |-> IF k = id THEN sale ELSE map[k]]

\* if sale_id == self.pending_sale.0 { pending_sale.1 } else { sales[sale_id] }:
\* which slot the id resolves to, "Missing" where the expect/index panics
Slot(app, sale_id) ==
    IF sale_id = app.pending_sale[1] THEN "Pending"
    ELSE IF sale_id \in DOMAIN app.sales THEN "Sales"
    ELSE "Missing"

\* The sale the id resolves to
Resolve(app, sale_id) ==
    IF Slot(app, sale_id) = "Pending" THEN app.pending_sale[2] ELSE app.sales[sale_id]

\* Every sale the App holds, committed or pending, by id
StoreSales(app) == app.sales @@ (app.pending_sale[1] :> app.pending_sale[2])

\* Mutant of Mutate: the reference always points at the pending sale.
Mutate_Pending(app, sale_id, sale) ==
    [app EXCEPT !.pending_sale = <<app.pending_sale[1], sale>>]

\* The effect of mutating the sale through the &mut reference taken for sale_id
Mutate(app, sale_id, sale) ==
    IF Slot(app, sale_id) = "Pending"
    THEN [app EXCEPT !.pending_sale = <<app.pending_sale[1], sale>>]
    ELSE [app EXCEPT !.sales[sale_id] = sale]

\* perform: sale::Operation::Back (the sale_id bound by the inner match is the
\* screen's, not the operation's)
PerformBack(app) ==
    IF app.screen.tag = "List" THEN app
    ELSE IF app.screen.mode = Edit
         THEN [app EXCEPT !.screen = ScreenSale(View, app.screen.id)]
         ELSE [app EXCEPT !.screen = ScreenList]

\* Mutants of PerformSave.
\* The pending sale keeps its id.
PerformSave_KeepId(app, sale_id) ==
    IF sale_id = app.pending_sale[1]
    THEN [screen |-> ScreenSale(View, app.pending_sale[1]),
          sales |-> [k \in DOMAIN app.sales \cup {app.pending_sale[1]} |->
                        IF k = app.pending_sale[1] THEN app.pending_sale[2]
                        ELSE app.sales[k]],
          pending_sale |-> <<app.pending_sale[1], SaleDefault>>,
          next_sale_id |-> app.next_sale_id + 1]
    ELSE [app EXCEPT !.screen = ScreenSale(View, sale_id)]

\* The counter is read, not incremented.
PerformSave_NoAdvance(app, sale_id) ==
    IF sale_id = app.pending_sale[1]
    THEN [screen |-> ScreenSale(View, app.pending_sale[1]),
          sales |-> [k \in DOMAIN app.sales \cup {app.pending_sale[1]} |->
                        IF k = app.pending_sale[1] THEN app.pending_sale[2]
                        ELSE app.sales[k]],
          pending_sale |-> <<app.next_sale_id, SaleDefault>>,
          next_sale_id |-> app.next_sale_id]
    ELSE [app EXCEPT !.screen = ScreenSale(View, sale_id)]

\* The taken sale is never inserted.
PerformSave_NoInsert(app, sale_id) ==
    IF sale_id = app.pending_sale[1]
    THEN [screen |-> ScreenSale(View, app.pending_sale[1]),
          sales |-> app.sales,
          pending_sale |-> <<app.next_sale_id, SaleDefault>>,
          next_sale_id |-> app.next_sale_id + 1]
    ELSE [app EXCEPT !.screen = ScreenSale(View, sale_id)]

\* The blank replacement is inserted instead of the taken sale.
PerformSave_InsertBlank(app, sale_id) ==
    IF sale_id = app.pending_sale[1]
    THEN [screen |-> ScreenSale(View, app.pending_sale[1]),
          sales |-> [k \in DOMAIN app.sales \cup {app.pending_sale[1]} |->
                        IF k = app.pending_sale[1] THEN SaleDefault ELSE app.sales[k]],
          pending_sale |-> <<app.next_sale_id, SaleDefault>>,
          next_sale_id |-> app.next_sale_id + 1]
    ELSE [app EXCEPT !.screen = ScreenSale(View, sale_id)]

\* The pending sale is committed whatever id is saved.
PerformSave_AlwaysCommit(app, sale_id) ==
    [screen |-> ScreenSale(View, sale_id),
     sales |-> [k \in DOMAIN app.sales \cup {sale_id} |->
                   IF k = sale_id THEN app.pending_sale[2] ELSE app.sales[k]],
     pending_sale |-> <<app.next_sale_id, SaleDefault>>,
     next_sale_id |-> app.next_sale_id + 1]

\* The counter is advanced twice, skipping an id.
PerformSave_SkipId(app, sale_id) ==
    IF sale_id = app.pending_sale[1]
    THEN [screen |-> ScreenSale(View, app.pending_sale[1]),
          sales |-> [k \in DOMAIN app.sales \cup {app.pending_sale[1]} |->
                        IF k = app.pending_sale[1] THEN app.pending_sale[2]
                        ELSE app.sales[k]],
          pending_sale |-> <<app.next_sale_id + 1, SaleDefault>>,
          next_sale_id |-> app.next_sale_id + 2]
    ELSE [app EXCEPT !.screen = ScreenSale(View, sale_id)]

\* perform: sale::Operation::Save
PerformSave(app, sale_id) ==
    IF sale_id = app.pending_sale[1]
    THEN LET current_sale == app.pending_sale[2]
             current_id == app.pending_sale[1]
         IN  [screen |-> ScreenSale(View, current_id),
              sales |-> Insert(app.sales, current_id, current_sale),
              pending_sale |-> <<app.next_sale_id, SaleDefault>>,
              next_sale_id |-> app.next_sale_id + 1]
    ELSE [app EXCEPT !.screen = ScreenSale(View, sale_id)]

\* perform: sale::Operation::StartEdit
PerformStartEdit(app, sale_id) == [app EXCEPT !.screen = ScreenSale(Edit, sale_id)]

\* Mutants of PerformCancel.
\* Cancel leaves for the list.
PerformCancel_ToList(app, sale_id) == [app EXCEPT !.screen = ScreenList]

\* Cancel rolls the sale back to a blank one.
PerformCancel_Reset(app, sale_id) ==
    IF sale_id = app.pending_sale[1]
    THEN [app EXCEPT !.screen = ScreenSale(View, sale_id),
                     !.pending_sale = <<sale_id, SaleDefault>>]
    ELSE [app EXCEPT !.screen = ScreenSale(View, sale_id),
                     !.sales[sale_id] = SaleDefault]

\* perform: sale::Operation::Cancel
PerformCancel(app, sale_id) == [app EXCEPT !.screen = ScreenSale(View, sale_id)]

\* App::perform on Operation::Sale(sale_id, operation): the App afterwards and
\* the Task it returns
perform(app, sale_id, operation) ==
    [app |-> CASE operation = Back -> PerformBack(app)
               [] operation = Save -> PerformSave(app, sale_id)
               [] operation = StartEdit -> PerformStartEdit(app, sale_id)
               [] operation = Cancel -> PerformCancel(app, sale_id),
     task |-> TaskNone]

\* The outcome of one call of App::update
Outcome(app, next, t, p) == [app |-> app, next |-> next, task |-> t, panicked |-> p]

\* Mutant of Bubble: an action that carries a task is not performed.
Bubble_TaskOnly(app, sale_id, action, next) ==
    IF IsSome(action.operation) /\ action.task = TaskNone
    THEN Outcome(perform(app, sale_id, Unwrap(action.operation)).app, next, TaskNone, FALSE)
    ELSE Outcome(app, next, action.task, FALSE)

\* The tail shared by the Hotkey and Sale arms: perform the operation, if any,
\* and chain the action's task after the operation's
Bubble(app, sale_id, action, next) ==
    IF IsSome(action.operation)
    THEN LET done == perform(app, sale_id, Unwrap(action.operation))
         IN  Outcome(done.app, next, Chain(done.task, action.task), FALSE)
    ELSE Outcome(app, next, Chain(TaskNone, action.task), FALSE)

\* App::update, Message::Hotkey arm
UpdateHotkey(app, next, hotkey) ==
    IF app.screen.tag = "List" THEN Outcome(app, next, TaskNone, FALSE)
    ELSE IF Slot(app, app.screen.id) = "Missing" THEN Outcome(app, next, TaskNone, TRUE)
    ELSE Bubble(app, app.screen.id, sale_handle_hotkey(app.screen.mode, hotkey), next)

\* App::update, Message::Sale arm
UpdateSale(app, next, sale_id, msg) ==
    IF Slot(app, sale_id) = "Missing" THEN Outcome(app, next, TaskNone, TRUE)
    ELSE LET r == sale_update(Resolve(app, sale_id), msg, next)
         IN  Bubble(Mutate(app, sale_id, r.sale), sale_id, r.action, r.next)

\* Mutants of UpdateNewSale.
\* NewSale allocates a new draft id.
UpdateNewSale_Fresh(app, next) ==
    Outcome([screen |-> ScreenSale(Edit, app.next_sale_id),
             sales |-> app.sales,
             pending_sale |-> <<app.next_sale_id, app.pending_sale[2]>>,
             next_sale_id |-> app.next_sale_id + 1],
            next, TaskNone, FALSE)

\* NewSale starts from a blank sale.
UpdateNewSale_Blank(app, next) ==
    Outcome([app EXCEPT !.screen = ScreenSale(Edit, app.pending_sale[1]),
                        !.pending_sale = <<app.pending_sale[1], SaleDefault>>],
            next, TaskNone, FALSE)

\* App::update, Message::List(NewSale) arm
UpdateNewSale(app, next) ==
    Outcome([app EXCEPT !.screen = ScreenSale(Edit, app.pending_sale[1])],
            next, TaskNone, FALSE)

\* App::update, Message::List(SelectSale(id)) arm
UpdateSelectSale(app, next, id) ==
    Outcome([app EXCEPT !.screen = ScreenSale(View, id)], next, TaskNone, FALSE)

\* App::update
App_update(app, next, m) ==
    CASE m.tag = "List" /\ m.msg.tag = "NewSale" -> UpdateNewSale(app, next)
      [] m.tag = "List" /\ m.msg.tag = "SelectSale" -> UpdateSelectSale(app, next, m.msg.id)
      [] m.tag = "Hotkey" -> UpdateHotkey(app, next, m.hotkey)
      [] m.tag = "Sale" -> UpdateSale(app, next, m.sale_id, m.msg)

\* App::view and App::title index self.sales[id] for a screen id that is not
\* the pending one: they panic when the id is missing
ViewPanics(app) == app.screen.tag = "Sale" /\ Slot(app, app.screen.id) = "Missing"

(* ------------------------------------------------------------------ *)
(* Messages                                                              *)
(* ------------------------------------------------------------------ *)

MsgList(msg) == [tag |-> "List", msg |-> msg]
MsgSale(sale_id, msg) == [tag |-> "Sale", sale_id |-> sale_id, msg |-> msg]
MsgHotkey(hotkey) == [tag |-> "Hotkey", hotkey |-> hotkey]
MsgShow(msg) == [tag |-> "Show", msg |-> msg]
MsgEdit(msg) == [tag |-> "Edit", msg |-> msg]
NoMessage == [tag |-> "None"]

\* Input values explored
Names == {"", "Lunch"}
ItemNames == {"", "Soup"}
QuantityTexts == {<<>>, <<"2">>, <<"-", "1">>}
PriceTexts == {<<>>, <<"1", ".", "5">>, <<"x">>, <<"i", "n", "f">>}
\* 10 percent, 5.00
Charges == {Dec(10, 0)}
Gratuities == {Dec(5, 0)}

FieldUpdates ==
    {[tag |-> "Name", val |-> n] : n \in ItemNames}
    \cup {[tag |-> "Price", val |-> t] : t \in PriceTexts}
    \cup {[tag |-> "Quantity", val |-> t] : t \in QuantityTexts}
    \cup {[tag |-> "TaxGroup", val |-> g] : g \in TaxGroup}

(* ------------------------------------------------------------------ *)
(* Behaviour                                                             *)
(* ------------------------------------------------------------------ *)

Init ==
    /\ screen = AppNew.screen
    /\ sales = AppNew.sales
    /\ pending_sale = AppNew.pending_sale
    /\ next_sale_id = AppNew.next_sale_id
    /\ NEXT_ID = 0
    /\ message = NoMessage
    /\ task = TaskNone
    /\ panicked = FALSE
    /\ totals = None

\* The runtime passes message m to App::update
Dispatch(m) ==
    /\ ~panicked
    /\ \E r \in {App_update(App, NEXT_ID, m)} :
          /\ screen' = r.app.screen
          /\ sales' = r.app.sales
          /\ pending_sale' = r.app.pending_sale
          /\ next_sale_id' = r.app.next_sale_id
          /\ NEXT_ID' = r.next
          /\ task' = r.task
          /\ panicked' = r.panicked
    /\ message' = m
    /\ totals' = totals

\* The sale view shown in the given mode: show::view in View, edit::view in Edit
Showing(mode) == screen.tag = "Sale" /\ screen.mode = mode

\* The ids of the item rows the edit view shows
RowIds ==
    IF screen.tag = "Sale" /\ Slot(App, screen.id) # "Missing"
    THEN {Resolve(App, screen.id).items[i].id :
            i \in 1..Len(Resolve(App, screen.id).items)}
    ELSE {}

\* The number of fields that are set, in an item, in a sale and in every sale
\* the App holds
Bit(b) == IF b THEN 1 ELSE 0

ItemFields(item) ==
    Bit(item.name # "") + Bit(IsSome(item.price)) + Bit(IsSome(item.quantity))
    + Bit(item.tax_group # Food)

RECURSIVE ItemsFields(_)
ItemsFields(items) ==
    IF items = <<>> THEN 0 ELSE ItemFields(Head(items)) + ItemsFields(Tail(items))

SaleFields(sale) ==
    Bit(sale.name # "") + Bit(IsSome(sale.service_charge_percent))
    + Bit(IsSome(sale.gratuity_amount)) + ItemsFields(sale.items)

RECURSIVE FieldsUpTo(_, _)
FieldsUpTo(app, k) ==
    IF k < 0 THEN 0
    ELSE (IF k \in DOMAIN StoreSales(app) THEN SaleFields(StoreSales(app)[k]) ELSE 0)
         + FieldsUpTo(app, k - 1)

Fields == FieldsUpTo(App, next_sale_id)

\* The size of the state: the sale ids and the item ids handed out and the
\* fields that are set
Size == next_sale_id + NEXT_ID + Fields

\* The step leaves a state within the bound
Within(max) == Size' <= max

WithinFocus ==
    IF next_sale_id' = AppNew.next_sale_id
    THEN NEXT_ID' <= MaxItemsFocus /\ Fields' <= MaxFieldsFocus
    ELSE Size' <= MaxSizeFocus

\* list::view
NewSale ==
    /\ screen.tag = "List"
    /\ Dispatch(MsgList([tag |-> "NewSale"]))

SelectSale ==
    /\ screen.tag = "List"
    /\ \E id \in DOMAIN sales : Dispatch(MsgList([tag |-> "SelectSale", id |-> id]))

\* show::view; every sale message carries the id of the screen that emitted it
ShowBack ==
    /\ Showing(View)
    /\ Dispatch(MsgSale(screen.id, MsgShow([tag |-> "Back"])))

ShowStartEdit ==
    /\ Showing(View)
    /\ Dispatch(MsgSale(screen.id, MsgShow([tag |-> "StartEdit"])))

\* edit::view; a step that allocates an id or sets a field is explored while
\* the state it leaves is within the bound
EditCancel ==
    /\ Showing(Edit)
    /\ Dispatch(MsgSale(screen.id, MsgEdit([tag |-> "Cancel"])))

EditSave(within) ==
    /\ Showing(Edit)
    /\ Dispatch(MsgSale(screen.id, MsgEdit([tag |-> "Save"])))
    /\ within

NameInput(within) ==
    /\ Showing(Edit)
    /\ \E n \in Names :
          Dispatch(MsgSale(screen.id, MsgEdit([tag |-> "NameInput", name |-> n])))
    /\ within

NameSubmit(within) ==
    /\ Showing(Edit)
    /\ Dispatch(MsgSale(screen.id, MsgEdit([tag |-> "NameSubmit"])))
    /\ within

AddItem(within) ==
    /\ Showing(Edit)
    /\ Dispatch(MsgSale(screen.id, MsgEdit([tag |-> "AddItem"])))
    /\ within

RemoveItem ==
    /\ Showing(Edit)
    /\ \E id \in RowIds :
          Dispatch(MsgSale(screen.id, MsgEdit([tag |-> "RemoveItem", id |-> id])))

UpdateItem(updates, within) ==
    /\ Showing(Edit)
    /\ \E id \in RowIds, u \in updates :
          Dispatch(MsgSale(screen.id,
                           MsgEdit([tag |-> "UpdateItem", id |-> id, update |-> u])))
    /\ within

SubmitItemRow(within) ==
    /\ Showing(Edit)
    /\ \E id \in RowIds :
          Dispatch(MsgSale(screen.id, MsgEdit([tag |-> "SubmitItem", id |-> id])))
    /\ within

UpdateServiceCharge(within) ==
    /\ Showing(Edit)
    /\ \E v \in Charges :
          Dispatch(MsgSale(screen.id, MsgEdit([tag |-> "UpdateServiceCharge", val |-> v])))
    /\ within

UpdateGratuity(within) ==
    /\ Showing(Edit)
    /\ \E v \in Gratuities :
          Dispatch(MsgSale(screen.id, MsgEdit([tag |-> "UpdateGratuity", val |-> v])))
    /\ within

\* A row message that is handled after its row has gone: the id was handed
\* out and no row of the sale has it any more
StaleRow ==
    /\ Showing(Edit)
    /\ \E id \in (0..(NEXT_ID - 1)) \ RowIds :
          \E msg \in {[tag |-> "RemoveItem", id |-> id],
                      [tag |-> "SubmitItem", id |-> id],
                      [tag |-> "UpdateItem", id |-> id,
                       update |-> [tag |-> "Name", val |-> "Soup"]]} :
             Dispatch(MsgSale(screen.id, MsgEdit(msg)))

\* handle_event: the keyboard subscription, on any screen
HotkeyEscape ==
    /\ ~panicked
    /\ Dispatch(MsgHotkey([tag |-> "Escape"]))

HotkeyTab ==
    /\ ~panicked
    /\ \E shift \in BOOLEAN : Dispatch(MsgHotkey([tag |-> "Tab", shift |-> shift]))

\* Spec: every message of the list view, the show view, the edit view and
\* the keyboard and the row messages that arrive after their row has gone, an
\* item row being filled in with a name, a quantity
\* and a price that parse and put in the tax group Standard
FillUpdates ==
    {[tag |-> "Name", val |-> "Soup"],
     [tag |-> "Quantity", val |-> <<"2">>],
     [tag |-> "Price", val |-> <<"1", ".", "5">>]}

RowUpdates == FillUpdates \cup {[tag |-> "TaxGroup", val |-> Standard]}

Next ==
    \/ NewSale
    \/ SelectSale
    \/ ShowBack
    \/ ShowStartEdit
    \/ EditCancel
    \/ EditSave(Within(MaxSize))
    \/ NameInput(Within(MaxSize))
    \/ NameSubmit(Within(MaxSize))
    \/ AddItem(Within(MaxSize))
    \/ RemoveItem
    \/ UpdateItem(RowUpdates, Within(MaxSize))
    \/ SubmitItemRow(Within(MaxSize))
    \/ UpdateServiceCharge(Within(MaxSize))
    \/ UpdateGratuity(Within(MaxSize))
    \/ HotkeyEscape
    \/ HotkeyTab
    \/ StaleRow

Spec == Init /\ [][Next]_vars

\* SpecFocus: the same messages under the bounds that the rows of a draft
\* need
NextFocus ==
    \/ NewSale
    \/ SelectSale
    \/ ShowBack
    \/ ShowStartEdit
    \/ EditCancel
    \/ EditSave(WithinFocus)
    \/ NameInput(WithinFocus)
    \/ NameSubmit(WithinFocus)
    \/ AddItem(WithinFocus)
    \/ RemoveItem
    \/ UpdateItem(RowUpdates, WithinFocus)
    \/ SubmitItemRow(WithinFocus)
    \/ UpdateServiceCharge(WithinFocus)
    \/ UpdateGratuity(WithinFocus)
    \/ HotkeyEscape
    \/ HotkeyTab
    \/ StaleRow

SpecFocus == Init /\ [][NextFocus]_vars

\* SpecRows: the messages of Spec under its own bound
NextRows ==
    \/ NewSale
    \/ SelectSale
    \/ ShowBack
    \/ ShowStartEdit
    \/ EditCancel
    \/ EditSave(Within(MaxSizeRows))
    \/ NameInput(Within(MaxSizeRows))
    \/ NameSubmit(Within(MaxSizeRows))
    \/ AddItem(Within(MaxSizeRows))
    \/ RemoveItem
    \/ UpdateItem(RowUpdates, Within(MaxSizeRows))
    \/ SubmitItemRow(Within(MaxSizeRows))
    \/ UpdateServiceCharge(Within(MaxSizeRows))
    \/ UpdateGratuity(Within(MaxSizeRows))
    \/ HotkeyEscape
    \/ HotkeyTab
    \/ StaleRow

SpecRows == Init /\ [][NextRows]_vars

\* SpecFields: every message, the price and the quantity of an item row being
\* typed with texts that parse and texts that do not
NextFields ==
    \/ NewSale
    \/ SelectSale
    \/ ShowBack
    \/ ShowStartEdit
    \/ EditCancel
    \/ EditSave(Within(MaxSizeFields))
    \/ NameInput(Within(MaxSizeFields))
    \/ NameSubmit(Within(MaxSizeFields))
    \/ AddItem(Within(MaxSizeFields))
    \/ RemoveItem
    \/ UpdateItem({u \in FieldUpdates : u.tag \in {"Price", "Quantity"}}
                  \cup {[tag |-> "Name", val |-> "Soup"],
                        [tag |-> "TaxGroup", val |-> Standard]},
                  Within(MaxSizeFields))
    \/ SubmitItemRow(Within(MaxSizeFields))
    \/ UpdateServiceCharge(Within(MaxSizeFields))
    \/ UpdateGratuity(Within(MaxSizeFields))
    \/ HotkeyEscape
    \/ HotkeyTab
    \/ StaleRow

SpecFields == Init /\ [][NextFields]_vars

\* SpecMessages: the same messages under the bound of the claim about the
\* field and item messages
NextMessages ==
    \/ NewSale
    \/ SelectSale
    \/ ShowBack
    \/ ShowStartEdit
    \/ EditCancel
    \/ EditSave(Within(MaxSizeMessages))
    \/ NameInput(Within(MaxSizeMessages))
    \/ NameSubmit(Within(MaxSizeMessages))
    \/ AddItem(Within(MaxSizeMessages))
    \/ RemoveItem
    \/ UpdateItem(RowUpdates, Within(MaxSizeMessages))
    \/ SubmitItemRow(Within(MaxSizeMessages))
    \/ UpdateServiceCharge(Within(MaxSizeMessages))
    \/ UpdateGratuity(Within(MaxSizeMessages))
    \/ HotkeyEscape
    \/ HotkeyTab
    \/ StaleRow

SpecMessages == Init /\ [][NextMessages]_vars

\* SpecGroups: every message, either tax group being picked for an item row
NextGroups ==
    \/ NewSale
    \/ SelectSale
    \/ ShowBack
    \/ ShowStartEdit
    \/ EditCancel
    \/ EditSave(Within(MaxSizeGroups))
    \/ NameInput(Within(MaxSizeGroups))
    \/ NameSubmit(Within(MaxSizeGroups))
    \/ AddItem(Within(MaxSizeGroups))
    \/ RemoveItem
    \/ UpdateItem(FillUpdates \cup {u \in FieldUpdates : u.tag = "TaxGroup"},
                  Within(MaxSizeGroups))
    \/ SubmitItemRow(Within(MaxSizeGroups))
    \/ UpdateServiceCharge(Within(MaxSizeGroups))
    \/ UpdateGratuity(Within(MaxSizeGroups))
    \/ HotkeyEscape
    \/ HotkeyTab
    \/ StaleRow

SpecGroups == Init /\ [][NextGroups]_vars

\* SpecTotals: the amounts of a sale are computed for every sale of at most
\* MaxItemsTotals items whose prices, quantities, tax groups, service charge
\* and gratuity are set from the texts and values below or left unset
TotalPriceTexts == {<<>>, <<"1", "0">>, <<"1", ".", "5">>}
TotalQuantityTexts == {<<>>, <<"2">>}

RECURSIVE TotalRows(_)
TotalRows(n) ==
    IF n = 0 THEN {<<>>}
    ELSE {Append(rows,
                 UpdateField(UpdateField([SaleItemDefault(n - 1) EXCEPT !.tax_group = g],
                                         [tag |-> "Price", val |-> p]),
                             [tag |-> "Quantity", val |-> q]))
            : rows \in TotalRows(n - 1), p \in TotalPriceTexts,
              q \in TotalQuantityTexts, g \in TaxGroup}

TotalSales ==
    {[SaleDefault EXCEPT !.items = rows, !.service_charge_percent = c,
                         !.gratuity_amount = g]
        : rows \in UNION {TotalRows(n) : n \in 0..MaxItemsTotals},
          c \in {None} \cup {Some(v) : v \in Charges},
          g \in {None} \cup {Some(v) : v \in Gratuities}}

\* The amounts of a sale, as the Sale methods compute them
Amounts(sale) ==
    [subtotal |-> calculate_subtotal(sale),
     tax |-> calculate_tax(sale),
     service_charge |-> calculate_service_charge(sale),
     total |-> calculate_total(sale)]

\* A sale is given and its amounts are not computed yet
InitTotals ==
    /\ screen = AppNew.screen
    /\ sales = AppNew.sales
    /\ pending_sale = AppNew.pending_sale
    /\ next_sale_id = AppNew.next_sale_id
    /\ NEXT_ID = 0
    /\ message = NoMessage
    /\ task = TaskNone
    /\ panicked = FALSE
    /\ totals \in {Some([sale |-> sale, amounts |-> None]) : sale \in TotalSales}

Calculate ==
    /\ totals # None
    /\ totals' = Some([Unwrap(totals) EXCEPT
                          !.amounts = Some(Amounts(Unwrap(totals).sale))])
    /\ UNCHANGED <<screen, sales, pending_sale, next_sale_id, NEXT_ID, message, task,
                   panicked>>

NextTotals == Calculate

SpecTotals == InitTotals /\ [][NextTotals]_vars

(* ------------------------------------------------------------------ *)
(* Properties                                                            *)
(* ------------------------------------------------------------------ *)

draft_id == pending_sale[1]
draft == pending_sale[2]
committed == DOMAIN sales

SaveMsg(id) == MsgSale(id, MsgEdit([tag |-> "Save"]))
CancelMsg(id) == MsgSale(id, MsgEdit([tag |-> "Cancel"]))
StartEditMsg(id) == MsgSale(id, MsgShow([tag |-> "StartEdit"]))
BackMsg(id) == MsgSale(id, MsgShow([tag |-> "Back"]))
EscapeMsg == MsgHotkey([tag |-> "Escape"])

\* The step passes m to App::update
Handles(m) == message' = m

\* C1: in every reachable state the draft id is not a key of the committed
\* sales, and next_sale_id is greater than the draft id and than every
\* committed key.
C1_StoreInvariant ==
    /\ draft_id \notin committed
    /\ next_sale_id > draft_id
    /\ \A k \in committed : next_sale_id > k

\* C1 witness: two drafts have been committed and a third is pending.
C1_Witness ==
    /\ committed = {0, 1}
    /\ draft_id = 2
    /\ next_sale_id = 3

\* C2: a Save of the draft adds exactly the old draft id as a new committed
\* key, advances next_sale_id by one and makes the old next_sale_id the draft
\* id; from draft 0 the commits are {0} with draft 1, then {0, 1} with draft 2.
C2_SaveAllocates ==
    [][Handles(SaveMsg(draft_id)) =>
          /\ draft_id \notin committed
          /\ committed' = committed \cup {draft_id}
          /\ next_sale_id' = next_sale_id + 1
          /\ draft_id' = next_sale_id
          /\ (draft_id = 0 => committed' = {0} /\ draft_id' = 1)
          /\ (draft_id = 1 => committed' = {0, 1} /\ draft_id' = 2)]_vars

\* C2 witness: the second Save has just committed draft 1.
C2_Witness ==
    /\ message = SaveMsg(1)
    /\ committed = {0, 1}
    /\ draft_id = 2

\* C3: a committed id stays a committed key in every later state and is
\* never the draft id again.
C3_CommittedIsPermanent ==
    [][\A k \in committed : k \in committed' /\ draft_id' # k]_vars

\* C3 witness: id 0 was committed, another draft was committed after it, and
\* messages have been handled since.
C3_Witness ==
    /\ 0 \in committed
    /\ 1 \in committed
    /\ draft_id = 2
    /\ message = MsgList([tag |-> "NewSale"])

\* C4: the screen is List or a Sale screen whose id is the draft id or a
\* committed key, so neither update nor view nor title fails the lookup.
C4_ScreenResolves ==
    /\ ~panicked
    /\ ~ViewPanics(App)
    /\ \/ screen = ScreenList
       \/ /\ screen.tag = "Sale"
          /\ screen.mode \in {View, Edit}
          /\ screen.id = draft_id \/ screen.id \in committed

\* C4 witness: a committed sale picked from the list is shown and a hotkey
\* has been looked up against it.
C4_Witness ==
    /\ screen = ScreenSale(Edit, 1)
    /\ 1 \in committed
    /\ message = MsgHotkey([tag |-> "Tab", shift |-> FALSE])

\* C5: after Save of the draft the screen is Sale(View, old draft id), the
\* committed entry under that id is the sale the draft slot held, the draft
\* slot is blank, and the screen's sale resolves to that entry in sales.
C5_SaveMovesDraft ==
    [][Handles(SaveMsg(draft_id)) /\ screen = ScreenSale(Edit, draft_id) =>
          /\ screen' = ScreenSale(View, draft_id)
          /\ draft_id \in committed'
          /\ sales'[draft_id] = draft
          /\ draft' = SaleDefault
          /\ Slot(App', draft_id) = "Sales"
          /\ Resolve(App', draft_id) = draft]_vars

\* C5 witness: a named draft with an item has just been saved as sale 0.
C5_Witness ==
    /\ message = SaveMsg(0)
    /\ screen = ScreenSale(View, 0)
    /\ 0 \in committed
    /\ sales[0].name = "Lunch"
    /\ Len(sales[0].items) = 1
    /\ draft = SaleDefault
    /\ draft_id = 1

\* C6: Save on the edit screen of a committed sale only changes the screen
\* to Sale(View, id).
C6_SaveCommittedIsNoop ==
    [][\A id \in committed :
          Handles(SaveMsg(id)) /\ screen = ScreenSale(Edit, id) =>
             /\ screen' = ScreenSale(View, id)
             /\ sales' = sales
             /\ pending_sale' = pending_sale
             /\ next_sale_id' = next_sale_id]_vars

\* C6 witness: Save was handled for committed sale 0 while the draft held
\* edits of its own (a Save of the draft would have left it blank).
C6_Witness ==
    /\ message = SaveMsg(0)
    /\ screen = ScreenSale(View, 0)
    /\ 0 \in committed
    /\ draft # SaleDefault

\* C7: Escape leads from Sale(Edit, id) to Sale(View, id), from
\* Sale(View, id) to List, changes nothing on List, and never changes the
\* committed sales, the draft or next_sale_id.
C7_EscapeAscends ==
    [][Handles(EscapeMsg) =>
          /\ screen = ScreenList => screen' = ScreenList
          /\ \A id \in committed \cup {draft_id} :
                /\ screen = ScreenSale(Edit, id) => screen' = ScreenSale(View, id)
                /\ screen = ScreenSale(View, id) => screen' = ScreenList
          /\ sales' = sales
          /\ pending_sale' = pending_sale
          /\ next_sale_id' = next_sale_id
          /\ task' = TaskNone]_vars

\* C7 witness: Escape has just left the edit screen of an edited draft for
\* its view screen.
C7_Witness ==
    /\ message = EscapeMsg
    /\ screen = ScreenSale(View, draft_id)
    /\ draft.name = "Lunch"

\* C8: when a sale message bubbles an instruction, the state the update
\* returns already has the instruction applied and the returned task holds
\* the child's effect after the (empty) task of perform: StartEdit returns
\* the focus effect with the screen already Sale(Edit, id); Back, Cancel and
\* Save return no effect.
C8_InstructionBeforeEffect ==
    [][\A id \in committed \cup {draft_id} :
          /\ Handles(StartEditMsg(id)) /\ screen = ScreenSale(View, id) =>
                screen' = ScreenSale(Edit, id) /\ task' = <<FocusNext>>
          /\ Handles(BackMsg(id)) /\ screen = ScreenSale(View, id) =>
                screen' = ScreenList /\ task' = TaskNone
          /\ Handles(CancelMsg(id)) /\ screen = ScreenSale(Edit, id) =>
                screen' = ScreenSale(View, id) /\ task' = TaskNone
          /\ Handles(SaveMsg(id)) /\ screen = ScreenSale(Edit, id) =>
                screen' = ScreenSale(View, id) /\ task' = TaskNone]_vars

\* C8 witness: StartEdit on committed sale 0 has returned the focus effect
\* and the screen is the edit screen.
C8_Witness ==
    /\ message = StartEditMsg(0)
    /\ screen = ScreenSale(Edit, 0)
    /\ task = <<FocusNext>>

\* The messages of the edit view that edit the sale
FieldTags ==
    {"NameInput", "NameSubmit", "AddItem", "RemoveItem", "UpdateItem", "SubmitItem",
     "UpdateServiceCharge", "UpdateGratuity"}

IsFieldEdit(m) == m.tag = "Sale" /\ m.msg.tag = "Edit" /\ m.msg.msg.tag \in FieldTags

IsEdit(m, tag) == m.tag = "Sale" /\ m.msg.tag = "Edit" /\ m.msg.msg.tag = tag

\* C9: an edit message for the draft id leaves every committed sale as it
\* was; an edit message for a committed id leaves the draft slot and every
\* other committed sale as they were.
C9_DraftIsolation ==
    [][IsFieldEdit(message') =>
          /\ committed' = committed
          /\ draft_id' = draft_id
          /\ message'.sale_id = draft_id => sales' = sales
          /\ message'.sale_id \in committed =>
                /\ pending_sale' = pending_sale
                /\ \A k \in committed \ {message'.sale_id} : sales'[k] = sales[k]]_vars

\* C9 witness: committed sale 0 has just been renamed while the draft holds
\* an item and no name and committed sale 1 has no name.
C9_Witness ==
    /\ message = MsgSale(0, MsgEdit([tag |-> "NameInput", name |-> "Lunch"]))
    /\ committed = {0, 1}
    /\ sales[0].name = "Lunch"
    /\ sales[1].name = ""
    /\ draft.name = ""
    /\ draft.items # <<>>

\* C10: Cancel on Sale(Edit, id) moves to Sale(View, id) and leaves the
\* committed sales, the draft slot and next_sale_id as they were.
C10_CancelKeepsEdits ==
    [][\A id \in committed \cup {draft_id} :
          Handles(CancelMsg(id)) /\ screen = ScreenSale(Edit, id) =>
             /\ screen' = ScreenSale(View, id)
             /\ sales' = sales
             /\ pending_sale' = pending_sale
             /\ next_sale_id' = next_sale_id]_vars

\* C10 witness: Cancel has left the edit screen of the never saved draft,
\* and the name and the item entered during the session are still there.
C10_Witness ==
    /\ message = CancelMsg(draft_id)
    /\ screen = ScreenSale(View, draft_id)
    /\ draft.name = "Lunch"
    /\ Len(draft.items) = 1

NewSaleMsg == MsgList([tag |-> "NewSale"])
SelectSaleMsg(id) == MsgList([tag |-> "SelectSale", id |-> id])

\* C11: from List, NewSale moves to Sale(Edit, draft id) on the existing
\* draft id and SelectSale(id) moves to Sale(View, id); neither changes the
\* committed sales, the draft slot or next_sale_id, and neither returns an
\* effect.
C11_ListNavigation ==
    [][/\ Handles(NewSaleMsg) /\ screen = ScreenList =>
             /\ screen' = ScreenSale(Edit, draft_id)
             /\ sales' = sales
             /\ pending_sale' = pending_sale
             /\ next_sale_id' = next_sale_id
             /\ task' = TaskNone
       /\ \A id \in committed :
             Handles(SelectSaleMsg(id)) /\ screen = ScreenList =>
                /\ screen' = ScreenSale(View, id)
                /\ sales' = sales
                /\ pending_sale' = pending_sale
                /\ next_sale_id' = next_sale_id
                /\ task' = TaskNone]_vars

\* C11 witness: with sale 0 committed, NewSale has opened the edit screen of
\* the existing draft 1 and no id was allocated.
C11_Witness ==
    /\ message = NewSaleMsg
    /\ screen = ScreenSale(Edit, 1)
    /\ committed = {0}
    /\ draft_id = 1
    /\ next_sale_id = 2
    /\ task = TaskNone

\* C18: next_sale_id is the draft id plus one and the committed keys are
\* exactly 0 .. draft id - 1, so there are draft id committed sales.
C18_ContiguousIds ==
    /\ next_sale_id = draft_id + 1
    /\ committed = 0..(draft_id - 1)
    /\ Cardinality(committed) = draft_id

\* C18 witness: two sales are committed under ids 0 and 1 and the list is
\* shown again.
C18_Witness ==
    /\ committed = {0, 1}
    /\ draft_id = 2
    /\ screen = ScreenList

\* C19 as stated: NewSale from the list opens Sale(Edit, draft id) on the
\* draft as it is, and a draft that is not blank becomes blank only in a
\* step that handles Save of the draft.
C19_BlankOnlyBySave ==
    [][/\ Handles(NewSaleMsg) /\ screen = ScreenList =>
             /\ screen' = ScreenSale(Edit, draft_id)
             /\ pending_sale' = pending_sale
       /\ draft # SaleDefault /\ draft' = SaleDefault => Handles(SaveMsg(draft_id))]_vars

\* C19 amended: the draft slot is changed only by an edit message addressed
\* to the draft id, which keeps the draft id, or by a Save of the draft,
\* which leaves a blank sale under the next id; Cancel, Back, Escape and
\* NewSale leave it as it was, so NewSale after leaving the edit screen
\* without Save opens Sale(Edit, draft id) on the same id and the same edited
\* sale.  The draft id changes only through a Save of the draft; without a
\* Save a draft that is not blank becomes blank only when NameInput or
\* RemoveItem, addressed to the draft, empties its last field.
C19_DraftSurvives ==
    [][/\ pending_sale' # pending_sale =>
             \/ Handles(SaveMsg(draft_id)) /\ draft' = SaleDefault
             \/ IsFieldEdit(message') /\ message'.sale_id = draft_id /\ draft_id' = draft_id
       /\ Handles(NewSaleMsg) /\ screen = ScreenList =>
             /\ screen' = ScreenSale(Edit, draft_id)
             /\ pending_sale' = pending_sale
       /\ draft_id' # draft_id =>
             /\ Handles(SaveMsg(draft_id))
             /\ screen = ScreenSale(Edit, draft_id)
             /\ draft_id' = next_sale_id
       /\ draft # SaleDefault /\ draft' = SaleDefault =>
             \/ Handles(SaveMsg(draft_id))
             \/ /\ \/ IsEdit(message', "NameInput") /\ message'.msg.msg.name = ""
                   \/ IsEdit(message', "RemoveItem") /\ Len(draft.items) = 1
                /\ message'.sale_id = draft_id
                /\ draft_id' = draft_id]_vars

\* C19 witness: the draft was edited and never saved, the edit screen was
\* left for the list, and NewSale has opened the same draft with its name
\* and its item.
C19_Witness ==
    /\ message = NewSaleMsg
    /\ screen = ScreenSale(Edit, draft_id)
    /\ draft_id \notin committed
    /\ draft.name = "Lunch"
    /\ Len(draft.items) = 1

\* The sale a sale message is addressed to, before and after the step
Addressed == Resolve(App, message'.sale_id)
AddressedAfter == Resolve(App', message'.sale_id)

\* C12: SubmitItem(id) for an item of the sale focuses the item's name field
\* if the name is empty, else its quantity field if the quantity is unset,
\* else its price field if the price is unset, else appends a blank item and
\* focuses the name field of that new item.
C12_SubmitFocusesNewItem ==
    [][IsEdit(message', "SubmitItem") /\ Find(Addressed.items, message'.msg.msg.id) # 0 =>
          LET id == message'.msg.msg.id
              item == Addressed.items[Find(Addressed.items, id)]
              after == AddressedAfter.items
          IN  /\ item.name = "" =>
                    after = Addressed.items /\ task' = <<Focus(form_id("name", id))>>
              /\ item.name # "" /\ ~IsSome(item.quantity) =>
                    after = Addressed.items /\ task' = <<Focus(form_id("quantity", id))>>
              /\ item.name # "" /\ IsSome(item.quantity) /\ ~IsSome(item.price) =>
                    after = Addressed.items /\ task' = <<Focus(form_id("price", id))>>
              /\ item.name # "" /\ IsSome(item.quantity) /\ IsSome(item.price) =>
                    /\ Len(after) = Len(Addressed.items) + 1
                    /\ SubSeq(after, 1, Len(Addressed.items)) = Addressed.items
                    /\ after[Len(after)] = SaleItemDefault(after[Len(after)].id)
                    /\ task' = <<Focus(form_id("name", after[Len(after)].id))>>]_vars

\* C13: after NameSubmit the sale has at least one item: a sale without items
\* gets exactly one blank item, a sale with items keeps its item list, and
\* the focus-advance effect is returned in both cases.
C13_NameSubmitEnsuresRow ==
    [][IsEdit(message', "NameSubmit") =>
          /\ Len(AddressedAfter.items) >= 1
          /\ Addressed.items = <<>> =>
                /\ AddressedAfter.items = <<SaleItemDefault(NEXT_ID)>>
                /\ NEXT_ID' = NEXT_ID + 1
          /\ Addressed.items # <<>> =>
                /\ AddressedAfter.items = Addressed.items
                /\ NEXT_ID' = NEXT_ID
          /\ task' = <<FocusNext>>]_vars

\* C13 witness: NameSubmit was handled after an item had been added and
\* removed, and the draft holds the one blank item it created.
C13_Witness ==
    /\ message = MsgSale(draft_id, MsgEdit([tag |-> "NameSubmit"]))
    /\ draft.items = <<SaleItemDefault(1)>>
    /\ NEXT_ID = 2
    /\ task = <<FocusNext>>

\* The places of the items of every sale of the store, one per item
ItemsOf(app) ==
    UNION {{<<k, i>> : i \in 1..Len(StoreSales(app)[k].items)} : k \in DOMAIN StoreSales(app)}
IdAt(app, pl) == StoreSales(app)[pl[1]].items[pl[2]].id
StoreItemIds(app) == {IdAt(app, pl) : pl \in ItemsOf(app)}

\* C15: no two items of the draft and the committed sales have the same id,
\* and an id that appears in a step is one the counter had not handed out
\* before, so the id of a removed item is never given again.
C15_ItemIdsUnique ==
    [][/\ \A p, q \in ItemsOf(App') : IdAt(App', p) = IdAt(App', q) => p = q
       /\ \A id \in StoreItemIds(App') : id < NEXT_ID'
       /\ \A id \in StoreItemIds(App') \ StoreItemIds(App) : id >= NEXT_ID
       /\ NEXT_ID' >= NEXT_ID]_vars

\* C15 witness: item 0 was removed before sale 0 was committed, and the item
\* added to the next draft has id 1.
C15_Witness ==
    /\ NEXT_ID = 2
    /\ committed = {0}
    /\ sales[0].items = <<>>
    /\ draft.items = <<SaleItemDefault(1)>>

\* Texts of the edit view that are empty or are no number of the field's kind
BadPriceTexts == {<<>>, <<"x">>}
BadQuantityTexts == {<<>>, <<"-", "1">>}

IsBadUpdate(u) ==
    \/ u.tag = "Price" /\ u.val \in BadPriceTexts
    \/ u.tag = "Quantity" /\ u.val \in BadQuantityTexts

Cleared(item, tag) ==
    IF tag = "Price" THEN [item EXCEPT !.price = None] ELSE [item EXCEPT !.quantity = None]

\* C14: UpdateItem(id, Price(text)) or UpdateItem(id, Quantity(text)) with a
\* text that is empty or does not parse leaves the field unset whatever it
\* held, raises no error, produces no instruction and no effect, and changes
\* no other field of the item, no other item and nothing else of the sale.
C14_ParseFailureUnsets ==
    [][(/\ IsEdit(message', "UpdateItem")
        /\ IsBadUpdate(message'.msg.msg.update)
        /\ Find(Addressed.items, message'.msg.msg.id) # 0) =>
          LET i == Find(Addressed.items, message'.msg.msg.id)
              tag == message'.msg.msg.update.tag
          IN  /\ AddressedAfter =
                    [Addressed EXCEPT !.items[i] = Cleared(@, tag)]
              /\ task' = TaskNone
              /\ ~panicked'
              /\ screen' = screen
              /\ committed' = committed
              /\ draft_id' = draft_id
              /\ next_sale_id' = next_sale_id
              /\ NEXT_ID' = NEXT_ID]_vars

\* C14 witness: a price that does not parse was typed into the first of two
\* rows; its price is unset and the price of the other row stands.
C14_Witness ==
    /\ message = MsgSale(draft_id, MsgEdit([tag |-> "UpdateItem", id |-> 0,
                    update |-> [tag |-> "Price", val |-> <<"x">>]]))
    /\ Len(draft.items) = 2
    /\ draft.items[1] = SaleItemDefault(0)
    /\ draft.items[2].price = Some(Dec(150, 2))
    /\ task = TaskNone
    /\ ~panicked

\* The items of the store by the key of their sale and their id, and the tax
\* group of one of them
ItemKeys(app) == {<<pl[1], IdAt(app, pl)>> : pl \in ItemsOf(app)}
GroupOf(app, p) ==
    LET items == StoreSales(app)[p[1]].items
    IN  items[Find(items, p[2])].tax_group

IsGroupUpdate(m) == IsEdit(m, "UpdateItem") /\ m.msg.msg.update.tag = "TaxGroup"

\* C16 as stated: no step changes the tax group of an item that is in a sale
\* before and after it.
C16_TaxGroupImmutable ==
    [][\A p \in ItemKeys(App) \cap ItemKeys(App') :
          GroupOf(App', p) = GroupOf(App, p)]_vars

\* C16 amended: an item that comes into a sale is in the group Food; the tax
\* group of an item that is in a sale is changed by UpdateItem(id,
\* TaxGroup(group)) naming that item in that sale, which sets it to the group
\* given, and by no other message.
C16_TaxGroupSetOnlyByUpdate ==
    [][/\ \A p \in ItemKeys(App) \cap ItemKeys(App') :
             GroupOf(App', p) # GroupOf(App, p) =>
                /\ IsGroupUpdate(message')
                /\ message'.sale_id = p[1]
                /\ message'.msg.msg.id = p[2]
       /\ IsGroupUpdate(message') =>
             \A p \in ItemKeys(App) \cap ItemKeys(App') :
                p = <<message'.sale_id, message'.msg.msg.id>> =>
                   GroupOf(App', p) = message'.msg.msg.update.val
       /\ \A p \in ItemKeys(App') \ ItemKeys(App) : GroupOf(App', p) = Food]_vars

\* C16 witness: the first of two rows, created in the default group Food,
\* was put in the group Standard; the second is still in Food.
C16_Witness ==
    /\ message = MsgSale(draft_id, MsgEdit([tag |-> "UpdateItem", id |-> 0,
                    update |-> [tag |-> "TaxGroup", val |-> Standard]]))
    /\ Len(draft.items) = 2
    /\ draft.items[1].id = 0 /\ draft.items[1].tax_group = Standard
    /\ draft.items[2].tax_group = Food

\* A row message whose id no item of the addressed sale has
IsRowEdit(m) ==
    IsEdit(m, "RemoveItem") \/ IsEdit(m, "UpdateItem") \/ IsEdit(m, "SubmitItem")

\* C20: a field or item message (NameInput, NameSubmit, AddItem, RemoveItem,
\* UpdateItem, SubmitItem, UpdateServiceCharge, UpdateGratuity) changes
\* neither the screen nor the draft id nor next_sale_id nor the keys of the
\* committed sales; RemoveItem, UpdateItem or SubmitItem with an id that no
\* item of the addressed sale has leaves the sale as it was and returns no
\* effect.
C20_FieldMessagesFrame ==
    [][/\ IsFieldEdit(message') =>
             /\ screen' = screen
             /\ draft_id' = draft_id
             /\ next_sale_id' = next_sale_id
             /\ committed' = committed
             /\ ~panicked'
       /\ (IsRowEdit(message') /\ Find(Addressed.items, message'.msg.msg.id) = 0) =>
             /\ AddressedAfter = Addressed
             /\ sales' = sales
             /\ pending_sale' = pending_sale
             /\ NEXT_ID' = NEXT_ID
             /\ task' = TaskNone]_vars

\* C20 witness: SubmitItem for the removed item 0 was handled while the
\* draft holds the named item 1 only; no item was appended and no effect
\* returned, and the edit screen of the draft is still shown.
C20_Witness ==
    /\ message = MsgSale(draft_id, MsgEdit([tag |-> "SubmitItem", id |-> 0]))
    /\ screen = ScreenSale(Edit, draft_id)
    /\ draft.items = <<[SaleItemDefault(1) EXCEPT !.name = "Soup"]>>
    /\ NEXT_ID = 2
    /\ next_sale_id = 1
    /\ committed = {}
    /\ task = TaskNone

\* SaleItem::price_string prints amounts to two places ("{:.2}")
FracDigits == 2

Cent == 10^FracDigits

\* The last s >= 1 bits of n are dropped, to nearest and ties to even
RoundShift(n, s) ==
    IF s >= 32 THEN 0
    ELSE IF s = 31 THEN (IF n > 2^30 THEN 1 ELSE 0)
    ELSE IF n % 2^s > 2^(s - 1) \/ (n % 2^s = 2^(s - 1) /\ (n \div 2^s) % 2 = 1)
    THEN n \div 2^s + 1
    ELSE n \div 2^s

\* The finite amount f in hundredths, to the nearest hundredth: the amount
\* read as a fixed-point number of two places
Hundredths(f) ==
    (IF f.neg THEN 0 - 1 ELSE 1)
    * (IF f.x >= 0 THEN f.m * 2^f.x * Cent ELSE RoundShift(f.m * Cent, 0 - f.x))

\* The parts of the total of a sale in millionths, written out from the
\* fields of the sale, and a number of millionths in hundredths
LineOf(item) ==
    IF IsSome(item.price) /\ IsSome(item.quantity)
    THEN Hundredths(Unwrap(item.price)) * DigitsVal(Unwrap(item.quantity))
    ELSE 0

RateOf(item) == Hundredths(tax_rate(item.tax_group))
TaxLineOf(item) == LineOf(item) * RateOf(item)

RECURSIVE SumLines(_)
SumLines(items) ==
    IF items = <<>> THEN 0 ELSE LineOf(Head(items)) + SumLines(Tail(items))

RECURSIVE SumTaxLines(_)
SumTaxLines(items) ==
    IF items = <<>> THEN 0 ELSE TaxLineOf(Head(items)) + SumTaxLines(Tail(items))

SubtotalOf(sale) == SumLines(sale.items) * Cent * Cent
TaxOf(sale) == SumTaxLines(sale.items) * Cent
ServiceChargeOf(sale) ==
    IF sale.service_charge_percent = None THEN 0
    ELSE SumLines(sale.items) * Hundredths(Unwrap(sale.service_charge_percent))
GratuityOf(sale) ==
    IF sale.gratuity_amount = None THEN 0
    ELSE Hundredths(Unwrap(sale.gratuity_amount)) * Cent * Cent

InHundredths(micro) == (micro + (Cent * Cent) \div 2) \div (Cent * Cent)

\* C17: for every sale whose amounts are computed, the total is subtotal +
\* tax + service charge + gratuity, where an item whose price or quantity is
\* unset adds 0 to the subtotal and to the tax, the service charge is 0 while
\* the percentage is unset and the gratuity is 0 while it is unset: the
\* total is the f32 sum of the three amounts and the gratuity, and each
\* amount read to the hundredth is the amount written out from the fields.
C17_TotalDecomposition ==
    (totals # None /\ Unwrap(totals).amounts # None) =>
        LET sale == Unwrap(totals).sale
            amounts == Unwrap(Unwrap(totals).amounts)
        IN  /\ amounts.total =
                   Add(Add(Add(amounts.subtotal, amounts.tax), amounts.service_charge),
                       IF sale.gratuity_amount = None THEN Zero
                       ELSE Unwrap(sale.gratuity_amount))
            /\ Hundredths(amounts.subtotal) = InHundredths(SubtotalOf(sale))
            /\ Hundredths(amounts.tax) = InHundredths(TaxOf(sale))
            /\ Hundredths(amounts.service_charge) = InHundredths(ServiceChargeOf(sale))
            /\ Hundredths(amounts.total) =
                   InHundredths(SubtotalOf(sale) + TaxOf(sale) + ServiceChargeOf(sale)
                                + GratuityOf(sale))

\* C17 witness: the amounts of the sale of the example (one Standard item of
\* price 10.00 and quantity 2, service charge 10 percent, gratuity 5.00)
\* beside an item with a price and no quantity are computed: subtotal 20.00,
\* tax 1.60, service charge 2.00, total 28.60 to the hundredth; as f32 the
\* tax is 1.599999904632568359375 and the total 28.6000003814697265625.
C17_Witness ==
    /\ totals # None
    /\ LET sale == Unwrap(totals).sale
       IN  /\ Len(sale.items) = 2
           /\ sale.items[1] = [SaleItemDefault(0) EXCEPT !.price = Some(Dec(10, 0)),
                                                          !.quantity = Some(<<"2">>),
                                                          !.tax_group = Standard]
           /\ sale.items[2] = [SaleItemDefault(1) EXCEPT !.price = Some(Dec(150, 2))]
           /\ sale.service_charge_percent = Some(Dec(10, 0))
           /\ sale.gratuity_amount = Some(Dec(5, 0))
    /\ Unwrap(totals).amounts # None
    /\ LET amounts == Unwrap(Unwrap(totals).amounts)
       IN  /\ Hundredths(amounts.subtotal) = 2000
           /\ Hundredths(amounts.tax) = 160
           /\ Hundredths(amounts.service_charge) = 200
           /\ Hundredths(amounts.total) = 2860
           /\ amounts.subtotal = Dec(20, 0)
           /\ amounts.tax = F32Num(FALSE, 13421772, 0 - 23)
           /\ amounts.service_charge = Dec(2, 0)
           /\ amounts.total = F32Num(FALSE, 14994637, 0 - 19)

====
